---- MODULE Spec2Model ----
(***************************************************************************)
(* hwmon subfeature layer (src/hwmon/src/subfeature.rs): the static type   *)
(* registry, the name parser get_properties_from_name, the unit            *)
(* conversion to_native / to_unity, and Subfeature construction, read and  *)
(* write against the backing sysfs attribute file.                         *)
(*                                                                         *)
(* Strings are TLA+ strings; a character is a string of length 1.          *)
(* A u32 is kept at its width as two 16-bit limbs [hi, lo].                *)
(* An f64 is one of                                                        *)
(*   [k |-> "fin", n, d, e]   the finite value (n / d) * 2^e, d > 0,       *)
(*                            e \in {0, 63}                                *)
(*   [k |-> "inf", s]         s = 1 or -1                                  *)
(*   [k |-> "nan"]                                                         *)
(* An i64 is a small integer, or one of the two saturation ends            *)
(* "i64::MAX" and "i64::MIN".                                              *)
(***************************************************************************)
EXTENDS Integers, Sequences, FiniteSets, TLC

VARIABLES
    fs,       \* path -> Absent or [r, w, content]: the files under the hwmon directory
    sf,       \* the constructed Subfeature, or None
    ret,      \* what the last call returned, and the syscalls it made
    name,     \* name parser: the input of get_properties_from_name
    parsed,   \* name parser: its result, or None before the call
    conv      \* conversion: [t, v, native, back], or None

vars == <<fs, sf, ret, name, parsed, conv>>

None == [k |-> "None"]

\* ret before any call; call is the parity of the number of calls made
NoCall == [call |-> 0, op |-> "none"]

-----------------------------------------------------------------------------
(* Characters and strings *)

CharAt(s, i) == SubSeq(s, i, i)

Digits == {"0", "1", "2", "3", "4", "5", "6", "7", "8", "9"}

\* char::is_ascii_digit
is_ascii_digit(c) == c \in Digits

\* char::to_digit(10) of an ASCII digit
DigitVal(c) ==
    CASE c = "0" -> 0 [] c = "1" -> 1 [] c = "2" -> 2 [] c = "3" -> 3
      [] c = "4" -> 4 [] c = "5" -> 5 [] c = "6" -> 6 [] c = "7" -> 7
      [] c = "8" -> 8 [] c = "9" -> 9

DigitChar(i) ==
    CASE i = 0 -> "0" [] i = 1 -> "1" [] i = 2 -> "2" [] i = 3 -> "3"
      [] i = 4 -> "4" [] i = 5 -> "5" [] i = 6 -> "6" [] i = 7 -> "7"
      [] i = 8 -> "8" [] i = 9 -> "9"

Min(S) == CHOOSE x \in S : \A y \in S : x <= y

Max(S) == CHOOSE x \in S : \A y \in S : x >= y

\* Mutant of split_once_underscore: cuts at the last '_' (rsplit_once)
rsplit_once_underscore(s) ==
    LET hits == {i \in 1..Len(s) : CharAt(s, i) = "_"}
    IN  IF hits = {} THEN None
        ELSE [k |-> "Some",
              head |-> SubSeq(s, 1, Max(hits) - 1),
              rest |-> SubSeq(s, Max(hits) + 1, Len(s))]

\* Mutant of split_once_underscore: a cut that leaves nothing after the '_' is no cut
split_once_nonempty_rest(s) ==
    LET hits == {i \in 1..Len(s) : CharAt(s, i) = "_"}
    IN  IF hits = {} \/ Min(hits) = Len(s) THEN None
        ELSE [k |-> "Some",
              head |-> SubSeq(s, 1, Min(hits) - 1),
              rest |-> SubSeq(s, Min(hits) + 1, Len(s))]

\* str::split_once('_'): the text before and after the first '_', or None
split_once_underscore(s) ==
    LET hits == {i \in 1..Len(s) : CharAt(s, i) = "_"}
    IN  IF hits = {} THEN None
        ELSE [k |-> "Some",
              head |-> SubSeq(s, 1, Min(hits) - 1),
              rest |-> SubSeq(s, Min(hits) + 1, Len(s))]

\* str::find(|c| c.is_ascii_digit()): the 0-based offset of the first ASCII digit
find_ascii_digit(s) ==
    LET hits == {i \in 1..Len(s) : is_ascii_digit(CharAt(s, i))}
    IN  IF hits = {} THEN None ELSE [k |-> "Some", v |-> Min(hits) - 1]

\* str::split_at(mid)
split_at(s, mid) == <<SubSeq(s, 1, mid), SubSeq(s, mid + 1, Len(s))>>

-----------------------------------------------------------------------------
(* u32 at its width: value = hi * 2^16 + lo *)

LimbBase == 65536

U32(hi, lo) == [hi |-> hi, lo |-> lo]

\* One step of u32::from_str: checked_mul(10) then checked_add(digit)
U32PushDigit(acc, dg) ==
    LET lo == acc.lo * 10 + dg
        hi == acc.hi * 10 + (lo \div LimbBase)
    IN  IF hi >= LimbBase THEN [k |-> "Err", kind |-> "PosOverflow"]
        ELSE [k |-> "Ok", v |-> U32(hi, lo % LimbBase)]

RECURSIVE U32FromDigits(_, _, _)
U32FromDigits(s, i, acc) ==
    IF i > Len(s) THEN [k |-> "Ok", v |-> acc]
    ELSE IF ~is_ascii_digit(CharAt(s, i)) THEN [k |-> "Err", kind |-> "InvalidDigit"]
    ELSE LET r == U32PushDigit(acc, DigitVal(CharAt(s, i)))
         IN  IF r.k = "Err" THEN r ELSE U32FromDigits(s, i + 1, r.v)

\* u32::from_str: empty input, a lone sign and '-' are errors, one leading '+' is
\* skipped, every other character must be a decimal digit, the value must fit
u32_from_str(s) ==
    IF Len(s) = 0 THEN [k |-> "Err", kind |-> "Empty"]
    ELSE IF s = "+" \/ s = "-" THEN [k |-> "Err", kind |-> "InvalidDigit"]
    ELSE IF CharAt(s, 1) = "+" THEN U32FromDigits(s, 2, U32(0, 0))
    ELSE U32FromDigits(s, 1, U32(0, 0))

-----------------------------------------------------------------------------
(* Ratio constants of crate::prefix::si *)

Unity == [numer |-> 1, denom |-> 1]

Milli == [numer |-> 1, denom |-> 1000]

Micro == [numer |-> 1, denom |-> 1000000]

-----------------------------------------------------------------------------
(* make_subfeatures!: one row <<Variant, pattern, ratio, alarm>> per variant *)

FanVariants ==
    << <<"Input", "input", Unity, FALSE>>,
       <<"Min", "min", Unity, FALSE>>,
       <<"Max", "max", Unity, FALSE>>,
       <<"Div", "div", Unity, FALSE>>,
       <<"Pulses", "pulses", Unity, FALSE>>,
       <<"Target", "target", Unity, FALSE>>,
       <<"Label", "label", Unity, FALSE>>,
       <<"Enable", "enable", Unity, FALSE>>,
       <<"Alarm", "alarm", Unity, TRUE>>,
       <<"Min_Alarm", "min_alarm", Unity, TRUE>>,
       <<"Max_Alarm", "max_alarm", Unity, TRUE>>,
       <<"Fault", "fault", Unity, FALSE>>,
       <<"Beep", "beep", Unity, FALSE>> >>

PwmVariants ==
    << <<"Pwm", "", Unity, FALSE>>,
       <<"Enable", "enable", Unity, FALSE>>,
       <<"Mode", "mode", Unity, FALSE>>,
       <<"Freq", "freq", Unity, FALSE>> >>

TemperatureVariants ==
    << <<"Input", "input", Milli, FALSE>>,
       <<"Max", "max", Milli, FALSE>>,
       <<"Max_Hyst", "max_hyst", Milli, FALSE>>,
       <<"Min", "min", Milli, FALSE>>,
       <<"Min_Hyst", "min_hyst", Milli, FALSE>>,
       <<"Crit_Max", "crit", Milli, FALSE>>,
       <<"Crit_Max_Hyst", "crit_hyst", Milli, FALSE>>,
       <<"Crit_Min", "lcrit", Milli, FALSE>>,
       <<"Crit_Min_Hyst", "lcrit_hyst", Milli, FALSE>>,
       <<"Emergency", "emergency", Milli, FALSE>>,
       <<"Emergency_Hyst", "emergency_hyst", Milli, FALSE>>,
       <<"Lowest", "lowest", Milli, FALSE>>,
       <<"Highest", "highest", Milli, FALSE>>,
       <<"Offset", "offset", Milli, FALSE>>,
       <<"Type", "type", Unity, FALSE>>,
       <<"Alarm", "alarm", Unity, TRUE>>,
       <<"Max_Alarm", "max_alarm", Unity, TRUE>>,
       <<"Min_Alarm", "min_alarm", Unity, TRUE>>,
       <<"Emergency_Alarm", "emergency_alarm", Unity, TRUE>>,
       <<"Crit_Max_Alarm", "crit_alarm", Unity, TRUE>>,
       <<"Crit_Min_Alarm", "lcrit_alarm", Unity, TRUE>>,
       <<"Fault", "fault", Unity, FALSE>>,
       <<"Beep", "beep", Unity, FALSE>> >>

VoltageVariants ==
    << <<"Input", "input", Milli, FALSE>>,
       <<"Max", "max", Milli, FALSE>>,
       <<"Min", "min", Milli, FALSE>>,
       <<"Crit_Max", "crit", Milli, FALSE>>,
       <<"Crit_Min", "lcrit", Milli, FALSE>>,
       <<"Average", "average", Milli, FALSE>>,
       <<"Highest", "highest", Milli, FALSE>>,
       <<"Lowest", "lowest", Milli, FALSE>>,
       <<"Alarm", "alarm", Unity, TRUE>>,
       <<"Max_Alarm", "max_alarm", Unity, TRUE>>,
       <<"Min_Alarm", "min_alarm", Unity, TRUE>>,
       <<"Crit_Max_Alarm", "crit_alarm", Unity, TRUE>>,
       <<"Crit_Min_Alarm", "lcrit_alarm", Unity, TRUE>>,
       <<"Beep", "beep", Unity, FALSE>> >>

CurrentVariants ==
    << <<"Input", "input", Milli, FALSE>>,
       <<"Max", "max", Milli, FALSE>>,
       <<"Min", "min", Milli, FALSE>>,
       <<"Crit_Max", "crit", Milli, FALSE>>,
       <<"Crit_Min", "lcrit", Milli, FALSE>>,
       <<"Average", "average", Milli, FALSE>>,
       <<"Highest", "highest", Milli, FALSE>>,
       <<"Lowest", "lowest", Milli, FALSE>>,
       <<"Alarm", "alarm", Unity, TRUE>>,
       <<"Max_Alarm", "max_alarm", Unity, TRUE>>,
       <<"Min_Alarm", "min_alarm", Unity, TRUE>>,
       <<"Crit_Max_Alarm", "crit_alarm", Unity, TRUE>>,
       <<"Crit_Min_Alarm", "lcrit_alarm", Unity, TRUE>>,
       <<"Beep", "beep", Unity, FALSE>> >>

PowerVariants ==
    << <<"Average", "average", Micro, FALSE>>,
       <<"Average_Highest", "average_highest", Micro, FALSE>>,
       <<"Average_Lowest", "average_lowest", Micro, FALSE>>,
       <<"Input", "input", Micro, FALSE>>,
       <<"Input_Highest", "input_highest", Micro, FALSE>>,
       <<"Input_Lowest", "input_lowest", Micro, FALSE>>,
       <<"Cap", "cap", Micro, FALSE>>,
       <<"Cap_Max", "cap_max", Micro, FALSE>>,
       <<"Cap_Min", "cap_min", Micro, FALSE>>,
       <<"Cap_Hyst", "cap_hyst", Micro, FALSE>>,
       <<"Max", "max", Micro, FALSE>>,
       <<"Min", "min", Micro, FALSE>>,
       <<"Crit_Max", "crit", Micro, FALSE>>,
       <<"Crit_Min", "lcrit", Micro, FALSE>>,
       <<"Average_Interval", "average_interval", Milli, FALSE>>,
       <<"Average_Interval_Max", "average_interval_max", Milli, FALSE>>,
       <<"Average_Interval_Min", "average_interval_min", Milli, FALSE>>,
       <<"Accuracy", "accuracy", Unity, FALSE>>,
       <<"Alarm", "alarm", Unity, TRUE>>,
       <<"Cap_Alarm", "cap_alarm", Unity, TRUE>>,
       <<"Max_Alarm", "max_alarm", Unity, TRUE>>,
       <<"Min_Alarm", "min_alarm", Unity, TRUE>>,
       <<"Crit_Max_Alarm", "crit_alarm", Unity, TRUE>>,
       <<"Crit_Min_Alarm", "lcrit_alarm", Unity, TRUE>> >>

EnergyVariants ==
    << <<"Input", "input", Micro, FALSE>> >>

HumidityVariants ==
    << <<"Input", "input", Milli, FALSE>> >>

IntrusionVariants ==
    << <<"Alarm", "alarm", Micro, FALSE>>,
       <<"Beep", "beep", Micro, FALSE>> >>

\* enum SubfeatureType: Feature(Variant), or the bare Cpu and BeepEnable
ST(feature, variant) == [feature |-> feature, variant |-> variant]

Cpu == ST("Cpu", "")

BeepEnable == ST("BeepEnable", "")

\* The variant table of a feature enum
VariantsOf(feature) ==
    CASE feature = "Fan" -> FanVariants
      [] feature = "Pwm" -> PwmVariants
      [] feature = "Temperature" -> TemperatureVariants
      [] feature = "Voltage" -> VoltageVariants
      [] feature = "Current" -> CurrentVariants
      [] feature = "Power" -> PowerVariants
      [] feature = "Energy" -> EnergyVariants
      [] feature = "Humidity" -> HumidityVariants
      [] feature = "Intrusion" -> IntrusionVariants

FeatureEnums ==
    {"Fan", "Pwm", "Temperature", "Voltage", "Current", "Power", "Energy",
     "Humidity", "Intrusion"}

\* The row of the variant in its table (the arm of the macro's match)
RowOf(feature, variant) ==
    LET rows == VariantsOf(feature)
    IN  rows[CHOOSE i \in 1..Len(rows) : rows[i][1] = variant]

\* $Feature::ratio
FeatureRatio(feature, variant) == RowOf(feature, variant)[3]

\* $Feature::is_alarm
FeatureIsAlarm(feature, variant) == RowOf(feature, variant)[4]

\* The macro's lazy_static map: m.insert(pattern, SubfeatureType::Feature(Variant))
\* row by row, a later insert of the same key replacing the earlier one
MakeMap(feature) ==
    LET rows == VariantsOf(feature)
        keys == {rows[i][2] : i \in 1..Len(rows)}
    IN  [p \in keys |->
            ST(feature, rows[Max({i \in 1..Len(rows) : rows[i][2] = p})][1])]

CPU_MAP == [p \in {"vid"} |-> Cpu]

\* FEATURE_TYPE_MAP: class prefix -> (FeatureType, suffix map)
FEATURE_TYPE_MAP ==
    [p \in {"temp", "in", "fan", "pwm", "cpu", "power", "curr", "energy",
            "intrusion", "humidity"} |->
        CASE p = "temp" -> [ft |-> "Temperature", map |-> MakeMap("Temperature")]
          [] p = "in" -> [ft |-> "Voltage", map |-> MakeMap("Voltage")]
          [] p = "fan" -> [ft |-> "Fan", map |-> MakeMap("Fan")]
          [] p = "pwm" -> [ft |-> "Pwm", map |-> MakeMap("Pwm")]
          [] p = "cpu" -> [ft |-> "Cpu", map |-> CPU_MAP]
          [] p = "power" -> [ft |-> "Power", map |-> MakeMap("Power")]
          [] p = "curr" -> [ft |-> "Current", map |-> MakeMap("Current")]
          [] p = "energy" -> [ft |-> "Energy", map |-> MakeMap("Energy")]
          [] p = "intrusion" -> [ft |-> "Intrusion", map |-> MakeMap("Intrusion")]
          [] p = "humidity" -> [ft |-> "Humidity", map |-> MakeMap("Humidity")]]

\* SubfeatureType::ratio
ratio(t) ==
    CASE t = Cpu -> Milli
      [] t = BeepEnable -> Unity
      [] OTHER -> FeatureRatio(t.feature, t.variant)

\* SubfeatureType::is_alarm
is_alarm(t) ==
    CASE t = Cpu -> FALSE
      [] t = BeepEnable -> FALSE
      [] OTHER -> FeatureIsAlarm(t.feature, t.variant)

\* Every value of the enum SubfeatureType
SubfeatureTypes ==
    {Cpu, BeepEnable} \cup
    UNION {{ST(f, VariantsOf(f)[i][1]) : i \in 1..Len(VariantsOf(f))} : f \in FeatureEnums}

-----------------------------------------------------------------------------
(* Name parser *)

\* impl From<ParseIntError> for SubfeatureError (crate::error)
FromParseIntError(e) == "Invalid"

Err(e) == [k |-> "Err", err |-> e]

\* FEATURE_TYPE_MAP.get(feature_id).and_then(|(_, sf_map)| sf_map.get(subfeature_id))
RegistryLookup(feature_id, subfeature_id) ==
    IF feature_id \notin DOMAIN FEATURE_TYPE_MAP THEN None
    ELSE LET sf_map == FEATURE_TYPE_MAP[feature_id].map
         IN  IF subfeature_id \notin DOMAIN sf_map THEN None
             ELSE [k |-> "Some", v |-> sf_map[subfeature_id]]

\* name.split_once('_').unwrap_or((name, ""))
SplitName(nm) ==
    LET cut == split_once_underscore(nm)
    IN  IF cut = None THEN <<nm, "">> ELSE <<cut.head, cut.rest>>

\* Mutant of get_properties_from_name: the registry is consulted before the
\* instance number is parsed
get_properties_registry_first(nm) ==
    IF nm = "beep_enable" THEN [k |-> "Ok", number |-> U32(0, 0), type |-> BeepEnable]
    ELSE
    LET split == SplitName(nm)
        feature_id_len == find_ascii_digit(split[1])
    IN  IF feature_id_len = None THEN Err("Invalid")
        ELSE
        LET parts == split_at(split[1], feature_id_len.v)
            sf_type == RegistryLookup(parts[1], split[2])
            feature_number == u32_from_str(parts[2])
        IN  IF sf_type = None THEN Err("Unknown")
            ELSE IF feature_number.k = "Err"
                 THEN Err(FromParseIntError(feature_number.kind))
            ELSE [k |-> "Ok", number |-> feature_number.v, type |-> sf_type.v]

\* Subfeature::get_properties_from_name
get_properties_from_name(nm) ==
    IF nm = "beep_enable" THEN [k |-> "Ok", number |-> U32(0, 0), type |-> BeepEnable]
    ELSE
    LET split == SplitName(nm)
        subfeature_name == split[1]
        subfeature_id == split[2]
        feature_id_len == find_ascii_digit(subfeature_name)
    IN  IF feature_id_len = None THEN Err("Invalid")
        ELSE
        LET parts == split_at(subfeature_name, feature_id_len.v)
            feature_id == parts[1]
            feature_number == u32_from_str(parts[2])
        IN  IF feature_number.k = "Err" THEN Err(FromParseIntError(feature_number.kind))
            ELSE
            LET sf_type == RegistryLookup(feature_id, subfeature_id)
            IN  IF sf_type = None THEN Err("Unknown")
                ELSE [k |-> "Ok", number |-> feature_number.v, type |-> sf_type.v]

-----------------------------------------------------------------------------
(* Decimal text of integers: the Display of i64 used by write!(file, "{}", n) *)

RECURSIVE NatText(_)
NatText(n) == IF n < 10 THEN DigitChar(n) ELSE NatText(n \div 10) \o DigitChar(n % 10)

I64_MAX_TEXT == "9223372036854775807"

I64_MIN_TEXT == "-9223372036854775808"

\* <i64 as Display>::fmt
FormatI64(i) ==
    IF i.sat = 1 THEN I64_MAX_TEXT
    ELSE IF i.sat = -1 THEN I64_MIN_TEXT
    ELSE IF i.v < 0 THEN "-" \o NatText(-i.v)
    ELSE NatText(i.v)

-----------------------------------------------------------------------------
(* i64 and f64 values.  Finite f64 values are exact rationals: the rounding  *)
(* error of the f64 operations themselves is not modelled.                   *)

I64(v) == [sat |-> 0, v |-> v]

I64_MAX == [sat |-> 1, v |-> 0]

I64_MIN == [sat |-> -1, v |-> 0]

Abs(x) == IF x < 0 THEN -x ELSE x

RECURSIVE GCD(_, _)
GCD(a, b) == IF b = 0 THEN a ELSE GCD(b, a % b)

\* The finite f64 (n / d) * 2^e in lowest terms, d > 0
F(n, d, e) ==
    LET g == GCD(Abs(n), d)
    IN  [k |-> "fin", n |-> n \div g, d |-> d \div g, e |-> IF n = 0 THEN 0 ELSE e]

NaN == [k |-> "nan"]

Inf(s) == [k |-> "inf", s |-> s]

\* Mutant of round: a tie goes to the even neighbour (round_ties_even)
round_ties_even(a, b) ==
    LET fl == a \div b
    IN  IF 2 * (a - fl * b) < b THEN fl
        ELSE IF 2 * (a - fl * b) > b THEN fl + 1
        ELSE IF fl % 2 = 0 THEN fl ELSE fl + 1

\* f64::round of the rational a / b (b > 0): to the nearest integer, a tie away
\* from zero
round(a, b) ==
    IF a >= 0 THEN (2 * a + b) \div (2 * b) ELSE -((2 * (-a) + b) \div (2 * b))

\* `x as i64` of the f64 x * denom / numer after round(): NaN is 0, a value
\* outside the range of i64 saturates at i64::MIN / i64::MAX.  A finite value
\* of 2^63 scale is modelled only where it is outside the range.
round_as_i64(x, r) ==
    CASE x.k = "nan" -> I64(0)
      [] x.k = "inf" -> IF x.s > 0 THEN I64_MAX ELSE I64_MIN
      [] x.k = "fin" /\ x.e = 0 -> I64(round(x.n * r.denom, x.d * r.numer))
      [] x.k = "fin" /\ x.e = 63 /\ Abs(x.n) * r.denom >= x.d * r.numer ->
            IF x.n > 0 THEN I64_MAX ELSE I64_MIN

\* SubfeatureType::to_native
to_native(t, value) == round_as_i64(value, ratio(t))

\* Mutant of to_unity: the raw value is returned unscaled
to_unity_unscaled(t, value) == value

\* SubfeatureType::to_unity
to_unity(t, value) ==
    CASE value.k = "fin" -> F(value.n * ratio(t).numer, value.d * ratio(t).denom, value.e)
      [] OTHER -> value

\* v * denom / numer lies inside the range of i64, for the ratios of the registry
\* (numer <= denom): every value modelled at scale 2^0 does, none at scale 2^63
InI64Range(v) == v.k = "fin" /\ v.e = 0

\* `n as f64` of an i64: i64::MAX = 2^63 - 1 rounds to 2^63
I64AsF64(i) ==
    IF i.sat = 1 THEN F(1, 1, 63)
    ELSE IF i.sat = -1 THEN F(-1, 1, 63)
    ELSE F(i.v, 1, 0)

-----------------------------------------------------------------------------
(* f64::from_str of a file's text: an optional sign, then inf, infinity or   *)
(* nan, or decimal digits with at most one '.', at least one digit.          *)
(* Exponents and numerals of more than MaxExactDigits digits other than the  *)
(* two ends of i64 are outside the texts modelled.                           *)

MaxExactDigits == 9

RECURSIVE Pow10(_)
Pow10(k) == IF k = 0 THEN 1 ELSE 10 * Pow10(k - 1)

RECURSIVE NatOfDigits(_)
NatOfDigits(s) ==
    IF Len(s) = 0 THEN 0
    ELSE NatOfDigits(SubSeq(s, 1, Len(s) - 1)) * 10 + DigitVal(CharAt(s, Len(s)))

RECURSIVE StripLeadingZeros(_)
StripLeadingZeros(s) ==
    IF Len(s) > 0 /\ CharAt(s, 1) = "0" THEN StripLeadingZeros(SubSeq(s, 2, Len(s))) ELSE s

ParseDecimal(body, sgn) ==
    LET dots == {i \in 1..Len(body) : CharAt(body, i) = "."}
        dot == IF dots = {} THEN Len(body) + 1 ELSE Min(dots)
        int == SubSeq(body, 1, dot - 1)
        frac == SubSeq(body, dot + 1, Len(body))
        all == StripLeadingZeros(int \o frac)
    IN  IF \/ Cardinality(dots) > 1
           \/ Len(int) + Len(frac) = 0
           \/ \E i \in 1..Len(int) : ~is_ascii_digit(CharAt(int, i))
           \/ \E i \in 1..Len(frac) : ~is_ascii_digit(CharAt(frac, i))
        THEN [k |-> "Err", kind |-> "ParseFloatError"]
        ELSE CASE Len(all) <= MaxExactDigits ->
                    [k |-> "Ok", v |-> F(sgn * NatOfDigits(all), Pow10(Len(frac)), 0)]
               [] Len(all) > MaxExactDigits /\ frac = ""
                    /\ all \in {"9223372036854775807", "9223372036854775808"} ->
                    [k |-> "Ok", v |-> F(sgn, 1, 63)]

\* str::parse::<f64>
ParseF64(s) ==
    LET signed == Len(s) > 0 /\ CharAt(s, 1) \in {"+", "-"}
        sgn == IF Len(s) > 0 /\ CharAt(s, 1) = "-" THEN -1 ELSE 1
        body == IF signed THEN SubSeq(s, 2, Len(s)) ELSE s
    IN  IF body \in {"inf", "infinity"} THEN [k |-> "Ok", v |-> Inf(sgn)]
        ELSE IF body = "nan" THEN [k |-> "Ok", v |-> NaN]
        ELSE ParseDecimal(body, sgn)

-----------------------------------------------------------------------------
(* The backing file.  fs = [path, root, file]: one attribute file of the     *)
(* hwmon directory, whether the process is root, and the file: Absent or     *)
(* [mode, content].  The calling process owns the file.                      *)

Absent == [k |-> "Absent"]

File(mode, content) == [k |-> "File", mode |-> mode, content |-> content]

\* libc::S_IRUSR = 0o400 and libc::S_IWUSR = 0o200
S_IRUSR == 256

S_IWUSR == 128

\* (st_mode & bit) == bit, for a one-bit mask
HasBit(st_mode, bit) == (st_mode \div bit) % 2 = 1

\* open(2) permission for the owner: root passes every check
MayOpen(dir, bit) == dir.root \/ HasBit(dir.file.mode, bit)

\* Path::file_name: the final component of the path (a path is the sequence of
\* its components)
file_name(path) == path[Len(path)]

\* crate::sysfs::sysfs_read_file: the whole content of the file as text, or the
\* IO failure of the open or of the read (kernelOk: the driver serves the read)
sysfs_read_file(dir, kernelOk) ==
    IF dir.file = Absent \/ ~MayOpen(dir, S_IRUSR) \/ ~kernelOk
    THEN [k |-> "Err", err |-> "Io"]
    ELSE [k |-> "Ok", v |-> dir.file.content]

\* Subfeature::read_sysfs_value
read_sysfs_value(self, dir, kernelOk) ==
    LET text == sysfs_read_file(dir, kernelOk)
    IN  IF text.k = "Err" THEN [res |-> Err("Io"), syscalls |-> <<"open">>]
        ELSE LET value == ParseF64(text.v)
             IN  IF value.k = "Err"
                 THEN [res |-> Err("Parse"), syscalls |-> <<"open", "read">>]
                 ELSE [res |-> [k |-> "Ok", v |-> to_unity(self.subfeature_type, value.v)],
                       syscalls |-> <<"open", "read">>]

\* Mutant of read_value: the permission is looked up again at every call
read_value_restat(self, dir, kernelOk) ==
    IF dir.file # Absent /\ HasBit(dir.file.mode, S_IRUSR)
    THEN read_sysfs_value(self, dir, kernelOk)
    ELSE [res |-> Err("Access"), syscalls |-> <<"stat">>]

\* Mutant of read_value: the value of the previous read is returned again
read_value_cached(self, dir, kernelOk) ==
    IF ~self.is_readable THEN [res |-> Err("Access"), syscalls |-> <<>>]
    ELSE IF ret.op = "read_value" /\ ret.res.k = "Ok"
         THEN [res |-> ret.res, syscalls |-> <<>>]
         ELSE read_sysfs_value(self, dir, kernelOk)

\* Subfeature::read_value
read_value(self, dir, kernelOk) ==
    IF self.is_readable
    THEN read_sysfs_value(self, dir, kernelOk)
    ELSE [res |-> Err("Access"), syscalls |-> <<>>]

\* Mutant of write_sysfs_value: the file is opened with create(true)
write_sysfs_value_create(self, dir, value, kernelOk) ==
    LET text == FormatI64(to_native(self.subfeature_type, value))
    IN  IF dir.file = Absent
        THEN [res |-> [k |-> "Ok"], file |-> File(420, text),
              syscalls |-> <<"open", "write">>, written |-> <<text>>]
        ELSE IF ~MayOpen(dir, S_IWUSR)
        THEN [res |-> Err("Io"), file |-> dir.file, syscalls |-> <<"open">>,
              written |-> <<>>]
        ELSE [res |-> [k |-> "Ok"], file |-> [dir.file EXCEPT !.content = text],
              syscalls |-> <<"open", "write">>, written |-> <<text>>]

\* Subfeature::write_sysfs_value: open write-only without create, then one write
\* of the decimal text.  The file is a sysfs attribute: a write the driver
\* accepts (kernelOk) makes the text the attribute's content, a write it
\* rejects is an IO failure and changes nothing.
write_sysfs_value(self, dir, value, kernelOk) ==
    LET text == FormatI64(to_native(self.subfeature_type, value))
    IN  IF dir.file = Absent \/ ~MayOpen(dir, S_IWUSR)
        THEN [res |-> Err("Io"), file |-> dir.file, syscalls |-> <<"open">>,
              written |-> <<>>]
        ELSE IF ~kernelOk
        THEN [res |-> Err("Io"), file |-> dir.file, syscalls |-> <<"open", "write">>,
              written |-> <<text>>]
        ELSE [res |-> [k |-> "Ok"], file |-> [dir.file EXCEPT !.content = text],
              syscalls |-> <<"open", "write">>, written |-> <<text>>]

\* Mutant of write_value: no check of is_writable
write_value_unchecked(self, dir, value, kernelOk) ==
    write_sysfs_value(self, dir, value, kernelOk)

\* Subfeature::write_value
write_value(self, dir, value, kernelOk) ==
    IF self.is_writable
    THEN write_sysfs_value(self, dir, value, kernelOk)
    ELSE [res |-> Err("Access"), file |-> dir.file, syscalls |-> <<>>, written |-> <<>>]

\* Subfeature::from_path, from the metadata query on: the Subfeature assembled
\* from the parsed name and the mode bits
assemble(dir, nm, props, st_mode) ==
    [res |-> [k |-> "Ok",
              number |-> props.number,
              subfeature |->
                  [name |-> nm,
                   path |-> dir.path,
                   subfeature_type |-> props.type,
                   compute_statement |-> None,
                   is_readable |-> HasBit(st_mode, S_IRUSR),
                   is_writable |-> HasBit(st_mode, S_IWUSR)]],
     syscalls |-> <<"stat", "stat">>]

\* Subfeature::from_path, after the existence check: the name is parsed, and a
\* failure of the parser is returned as it is
from_existing_path(dir, nm, props) ==
    IF props.k = "Err" THEN [res |-> props, syscalls |-> <<"stat">>]
    ELSE assemble(dir, nm, props, dir.file.mode)

\* Subfeature::from_path
from_path(dir) ==
    IF dir.file = Absent
    THEN [res |-> Err("Invalid"), syscalls |-> <<"stat">>]
    ELSE from_existing_path(dir, file_name(dir.path),
                            get_properties_from_name(file_name(dir.path)))

-----------------------------------------------------------------------------
(* Specification of construction, read and write against one backing file *)

HwmonDir == <<"sys", "class", "hwmon", "hwmon0">>

Paths ==
    {Append(HwmonDir, "temp1_input"), Append(HwmonDir, "pwm2"),
     Append(HwmonDir, "name"), Append(HwmonDir, "fan1_foo")}

\* File modes: 0o644, 0o444, 0o200, 0o000
Modes == {420, 292, 128, 0}

\* What the driver or another process leaves in the file
Contents == {"45000", "12x", ""}

\* The values written: 128, 0.0005, -0.0005, -1.5, 2^64, NaN
WriteValues == {F(128, 1, 0), F(1, 2000, 0), F(-1, 2000, 0), F(-3, 2, 0), F(2, 1, 63), NaN}

Init ==
    /\ fs \in {[path |-> p, root |-> b, file |-> f] :
                  p \in Paths, b \in BOOLEAN,
                  f \in {Absent} \cup {File(m, c) : m \in Modes, c \in Contents}}
    /\ sf = None
    /\ ret = NoCall
    /\ name = "" /\ parsed = None /\ conv = None

FromPath ==
    /\ \E out \in {from_path(fs)} :
          /\ sf' = IF out.res.k = "Ok" THEN out.res.subfeature ELSE sf
          /\ ret' = [call |-> 1 - ret.call, op |-> "from_path", res |-> out.res,
                     syscalls |-> out.syscalls]
    /\ UNCHANGED <<fs, name, parsed, conv>>

ReadValue ==
    /\ sf # None
    /\ \E kernelOk \in BOOLEAN :
          \E out \in {read_value(sf, fs, kernelOk)} :
              ret' = [call |-> 1 - ret.call, op |-> "read_value", res |-> out.res,
                      syscalls |-> out.syscalls]
    /\ UNCHANGED <<fs, sf, name, parsed, conv>>

WriteValue ==
    /\ sf # None
    /\ \E value \in WriteValues, kernelOk \in BOOLEAN :
          \E out \in {write_value(sf, fs, value, kernelOk)} :
              /\ fs' = [fs EXCEPT !.file = out.file]
              /\ ret' = [call |-> 1 - ret.call, op |-> "write_value", v |-> value,
                         res |-> out.res, syscalls |-> out.syscalls,
                         written |-> out.written]
    /\ UNCHANGED <<sf, name, parsed, conv>>

\* The environment: chmod, unlink, creation, and a new reading from the driver
Chmod ==
    /\ fs.file # Absent
    /\ \E m \in Modes \ {fs.file.mode} : fs' = [fs EXCEPT !.file.mode = m]
    /\ UNCHANGED <<sf, ret, name, parsed, conv>>

Remove ==
    /\ fs.file # Absent
    /\ fs' = [fs EXCEPT !.file = Absent]
    /\ UNCHANGED <<sf, ret, name, parsed, conv>>

Create ==
    /\ fs.file = Absent
    /\ \E m \in Modes, c \in Contents : fs' = [fs EXCEPT !.file = File(m, c)]
    /\ UNCHANGED <<sf, ret, name, parsed, conv>>

ExternalWrite ==
    /\ fs.file # Absent
    /\ \E c \in Contents \ {fs.file.content} : fs' = [fs EXCEPT !.file.content = c]
    /\ UNCHANGED <<sf, ret, name, parsed, conv>>

Next ==
    \/ FromPath
    \/ ReadValue
    \/ WriteValue
    \/ Chmod
    \/ Remove
    \/ Create
    \/ ExternalWrite

Spec == Init /\ [][Next]_vars

-----------------------------------------------------------------------------
(* Vocabulary of the read and write claims *)

\* The step is a call of op: every call flips ret.call, no other step changes ret
Called(op) == ret' # ret /\ ret'.op = op

OkValue(v) == [k |-> "Ok", v |-> v]

\* The integer a file text denotes, for the integer texts a file can hold
RawOf ==
    ("45000" :> 45000) @@ ("128000" :> 128000) @@ ("128" :> 128) @@ ("1" :> 1) @@
    ("0" :> 0) @@ ("-1" :> -1) @@ ("-2" :> -2) @@ ("-1500" :> -1500)

\* raw * numer / denom, and 2^63 * numer / denom for the text of i64::MAX
ExpectedRead(content, r) ==
    IF content \in DOMAIN RawOf THEN OkValue(F(RawOf[content] * r.numer, r.denom, 0))
    ELSE IF content = I64_MAX_TEXT THEN OkValue(F(r.numer, r.denom, 63))
    ELSE Err("Parse")

\* The integer nearest to a / b (b > 0), a tie going away from zero
NearestAwayFromZero(a, b) ==
    LET fl == a \div b
        twice == 2 * (a - fl * b)
    IN  IF twice < b THEN fl
        ELSE IF twice > b THEN fl + 1
        ELSE IF a >= 0 THEN fl + 1 ELSE fl

DecimalText(i) == IF i < 0 THEN "-" \o NatText(-i) ELSE NatText(i)

\* The zeros that multiplying by a power of ten appends
ZerosOf(denom) ==
    CASE denom = 1 -> "" [] denom = 1000 -> "000" [] denom = 1000000 -> "000000"

\* The decimal text of the integer round(v * denom / numer), for a finite v:
\* for v = 2^64 or -2^64 the text of 18446744073709551616 * denom
ExactText(v, r) ==
    IF v.e = 0 THEN DecimalText(NearestAwayFromZero(v.n * r.denom, v.d * r.numer))
    ELSE (IF v.n < 0 THEN "-" ELSE "") \o "18446744073709551616" \o ZerosOf(r.denom)

\* C3: read_value returns Access exactly when the is_readable flag, captured by
\* from_path from the owner-read bit, is false, and then makes no filesystem
\* access; with the flag true it never returns Access, whatever the file's mode
\* has become since.
C3_ReadAccessBySnapshot ==
    [][/\ (Called("from_path") /\ ret'.res.k = "Ok") =>
              sf'.is_readable = HasBit(fs.file.mode, S_IRUSR)
       /\ Called("read_value") =>
              /\ (ret'.res = Err("Access")) <=> ~sf.is_readable
              /\ ~sf.is_readable => ret'.syscalls = <<>>]_vars

\* A read refused by the snapshot while the file is readable again
C3_Witness ==
    /\ ret.op = "read_value" /\ ret.res = Err("Access") /\ ret.syscalls = <<>>
    /\ sf # None /\ ~sf.is_readable
    /\ fs.file # Absent /\ HasBit(fs.file.mode, S_IRUSR)

\* C4: write_value on a Subfeature whose captured is_writable is false returns
\* Access for every value, never opens the file and leaves it as it was,
\* whatever the file's current mode; no write_value call changes the
\* Subfeature's fields.
C4_WriteRefusedBySnapshot ==
    [][Called("write_value") =>
          /\ sf' = sf
          /\ ~sf.is_writable =>
                /\ ret'.res = Err("Access")
                /\ ret'.syscalls = <<>>
                /\ fs' = fs]_vars

C4_Witness ==
    /\ ret.op = "write_value" /\ ret.res = Err("Access") /\ ret.syscalls = <<>>
    /\ sf # None /\ ~sf.is_writable
    /\ fs.file # Absent /\ HasBit(fs.file.mode, S_IWUSR)

\* C5: when the backing path has been removed after a writable Subfeature was
\* constructed, write_value returns an IO failure as an error value and does not
\* create the file.
C5_WriteToRemovedPath ==
    [][(Called("write_value") /\ sf.is_writable /\ fs.file = Absent) =>
          /\ ret'.res = Err("Io")
          /\ fs'.file = Absent]_vars

\* Root is refused by no mode, and the only syscall was the open: it failed
\* because the file is gone
C5_Witness ==
    /\ ret.op = "write_value" /\ ret.res = Err("Io") /\ ret.syscalls = <<"open">>
    /\ sf # None /\ sf.is_writable
    /\ fs.file = Absent /\ fs.root

\* C8: every read_value of a readable Subfeature that does not fail with IO
\* returns to_unity of the content the file holds at that call (45000 in
\* temp1_input reads 45.0), never the result of an earlier call, and Parse when
\* that content is not a number.
C8_ReadsCurrentContent ==
    [][(Called("read_value") /\ sf.is_readable /\ ret'.res # Err("Io")) =>
          /\ fs.file # Absent
          /\ ret'.res = ExpectedRead(fs.file.content, ratio(sf.subfeature_type))
          /\ (sf.name = "temp1_input" /\ fs.file.content = "45000") =>
                ret'.res = OkValue(F(45, 1, 0))
          /\ fs.file.content \in {"12x", ""} => ret'.res = Err("Parse")]_vars

C8_Witness ==
    /\ ret.op = "read_value" /\ ret.res = OkValue(F(45, 1, 0))
    /\ sf # None /\ sf.name = "temp1_input"
    /\ fs.file # Absent /\ fs.file.content = "45000"

\* C9 for the values in S
C9Step(S) ==
    (Called("write_value") /\ sf.is_writable) =>
        /\ ret'.res \in {[k |-> "Ok"], Err("Io")}
        /\ ret'.v \in S =>
              \E text \in {ExactText(ret'.v, ratio(sf.subfeature_type))} :
                  ret'.res.k = "Ok" =>
                      /\ ret'.written = <<text>>
                      /\ fs'.file.content = text
        /\ (ret'.res.k = "Ok" /\ sf.name = "pwm2" /\ ret'.v = F(128, 1, 0)) =>
              ret'.written = <<"128">>
        /\ (ret'.res.k = "Ok" /\ sf.name = "temp1_input" /\ ret'.v = F(1, 2000, 0)) =>
              ret'.written = <<"1">>
        /\ (ret'.res.k = "Ok" /\ sf.name = "temp1_input" /\ ret'.v = F(-1, 2000, 0)) =>
              ret'.written = <<"-1">>

\* C9 (original): write_value(v) on a writable Subfeature writes, for ANY
\* (finite) value v, the decimal text of the integer round(v * denom / numer),
\* ties away from zero, and validates nothing.
C9_WritesRoundedTextAnyValue == [][C9Step({v \in WriteValues : v.k = "fin"})]_vars

\* C9 (amended): write_value(v) on a writable Subfeature writes, for any finite
\* v whose scaled value v * denom / numer lies inside the range of i64, the
\* decimal text of the integer round(v * denom / numer), ties away from zero
\* (pwm2: 128.0 writes "128"; Milli: 0.0005 writes "1", -0.0005 writes "-1"),
\* and validates nothing: the only failure is an IO failure.
C9_WritesRoundedTextInRange == [][C9Step({v \in WriteValues : InI64Range(v)})]_vars

C9_Witness ==
    /\ ret.op = "write_value" /\ ret.res.k = "Ok"
    /\ ret.v = F(-1, 2000, 0) /\ ret.written = <<"-1">>
    /\ sf # None /\ sf.name = "temp1_input"
    /\ fs.file # Absent /\ fs.file.content = "-1"

-----------------------------------------------------------------------------
(* Name parser inputs *)

MaxInstance == 2

\* The instance numerals tried, each with the number it denotes:
\* a u32, or TooBig for a number above u32::MAX = 4294967295
TooBig == [k |-> "TooBig"]

Instances ==
    {[text |-> NatText(n), v |-> U32(0, n)] : n \in 0..MaxInstance} \cup
    {[text |-> "007", v |-> U32(0, 7)],
     [text |-> "65536", v |-> U32(1, 0)],
     [text |-> "4294967295", v |-> U32(65535, 65535)],
     [text |-> "4294967296", v |-> TooBig],
     [text |-> "99999999999", v |-> TooBig]}

\* Number parts that are not numerals
BadNumerals == {"", "1a", "1+2", "x1"}

RegisteredPrefixes == DOMAIN FEATURE_TYPE_MAP

OtherPrefixes == {"foo", "", "Temp", "beep"}

RegisteredSuffixes == UNION {DOMAIN FEATURE_TYPE_MAP[p].map : p \in RegisteredPrefixes}

OtherSuffixes == {"bar", "Input", "enable_", "input_max"}

Heads ==
    {p \o n : p \in RegisteredPrefixes \cup OtherPrefixes,
              n \in {i.text : i \in Instances} \cup BadNumerals}

NameInputs ==
    {"beep_enable"} \cup Heads \cup
    {h \o "_" \o s : h \in Heads, s \in RegisteredSuffixes \cup OtherSuffixes}

-----------------------------------------------------------------------------
(* Specification of the name parser: one name, one call *)

InitParse ==
    /\ name \in NameInputs
    /\ parsed = None
    /\ fs = None /\ sf = None /\ ret = NoCall /\ conv = None

ParseName ==
    /\ parsed = None
    /\ parsed' = get_properties_from_name(name)
    /\ UNCHANGED <<fs, sf, ret, name, conv>>

NextParse == ParseName

SpecParse == InitParse /\ [][NextParse]_vars

-----------------------------------------------------------------------------
(* Vocabulary of the name-parser claims *)

Ok(number, type) == [k |-> "Ok", number |-> number, type |-> type]

AllDigits(s) == Len(s) > 0 /\ \A i \in 1..Len(s) : CharAt(s, i) \in Digits

RECURSIVE StripZeros(_)
StripZeros(s) ==
    IF Len(s) > 1 /\ CharAt(s, 1) = "0" THEN StripZeros(SubSeq(s, 2, Len(s))) ELSE s

\* a <= b for two numerals of the same length, digit by digit
RECURSIVE NumeralLeq(_, _)
NumeralLeq(a, b) ==
    IF Len(a) = 0 THEN TRUE
    ELSE IF DigitVal(CharAt(a, 1)) < DigitVal(CharAt(b, 1)) THEN TRUE
    ELSE IF DigitVal(CharAt(a, 1)) > DigitVal(CharAt(b, 1)) THEN FALSE
    ELSE NumeralLeq(SubSeq(a, 2, Len(a)), SubSeq(b, 2, Len(b)))

U32_MAX_TEXT == "4294967295"

\* The numeral denotes a number in 0 .. 2^32 - 1
FitsU32(s) ==
    LET c == StripZeros(s)
    IN  \/ Len(c) < Len(U32_MAX_TEXT)
        \/ Len(c) = Len(U32_MAX_TEXT) /\ NumeralLeq(c, U32_MAX_TEXT)

\* The text before the first underscore, and the text after it ("" when none)
HeadOf(nm) ==
    IF \E i \in 1..Len(nm) : CharAt(nm, i) = "_"
    THEN SubSeq(nm, 1, Min({i \in 1..Len(nm) : CharAt(nm, i) = "_"}) - 1)
    ELSE nm

SuffixOf(nm) ==
    IF \E i \in 1..Len(nm) : CharAt(nm, i) = "_"
    THEN SubSeq(nm, Min({i \in 1..Len(nm) : CharAt(nm, i) = "_"}) + 1, Len(nm))
    ELSE ""

HasDigit(s) == \E i \in 1..Len(s) : CharAt(s, i) \in Digits

FirstDigit(s) == Min({i \in 1..Len(s) : CharAt(s, i) \in Digits})

\* The class prefix and the number part of a head that holds a digit
PrefixOf(head) == SubSeq(head, 1, FirstDigit(head) - 1)

NumberPartOf(head) == SubSeq(head, FirstDigit(head), Len(head))

Registered(prefix, suffix) ==
    /\ prefix \in RegisteredPrefixes
    /\ suffix \in DOMAIN FEATURE_TYPE_MAP[prefix].map

\* What registered name <prefix><N>[_<suffix>] the input is, if any
ExpectedOfRegistered(p, i, s) == Ok(i.v, FEATURE_TYPE_MAP[p].map[s])

ExpectedOfBare(p, i) ==
    IF "" \in DOMAIN FEATURE_TYPE_MAP[p].map
    THEN Ok(i.v, FEATURE_TYPE_MAP[p].map[""])
    ELSE Err("Unknown")

\* C1 as stated, for the instances in I
C1For(I) ==
    parsed # None =>
        /\ \A p \in RegisteredPrefixes, i \in I :
              /\ \A s \in DOMAIN FEATURE_TYPE_MAP[p].map :
                    name = p \o i.text \o "_" \o s => parsed = ExpectedOfRegistered(p, i, s)
              /\ name = p \o i.text => parsed = ExpectedOfBare(p, i)
        /\ name = "power1_average_interval_max" =>
              parsed = Ok(U32(0, 1), ST("Power", "Average_Interval_Max"))
        /\ \A i \in I : name = "pwm" \o i.text => parsed = Ok(i.v, ST("Pwm", "Pwm"))

\* C1 (original): every registered <prefix><N>_<suffix>, for EVERY non-negative
\* instance number N, parses to (N, the registered type), and <prefix><N> alone
\* parses only for pwm and is Unknown for every other class.
C1_EveryInstanceNumber == C1For(Instances)

\* C1 (amended): every registered <prefix><N>_<suffix>, for every instance number
\* N in 0 .. 2^32 - 1 (the range of u32), parses to (N, the registered type), also
\* when the suffix holds underscores; <prefix><N> alone parses only for pwm, to
\* (N, Pwm::Pwm), and is Unknown for every other class.
C1_RegisteredNamesParse == C1For({i \in Instances : i.v # TooBig})

C1_Witness ==
    /\ name = "power4294967295_average_interval_max"
    /\ parsed = Ok(U32(65535, 65535), ST("Power", "Average_Interval_Max"))

\* C2, the number part of a head being well-formed when it is all digits and,
\* if inU32, denotes a number of at most u32::MAX
C2For(inU32) ==
    (parsed # None /\ name # "beep_enable") =>
        LET head == HeadOf(name)
        IN  IF ~HasDigit(head) THEN parsed = Err("Invalid")
            ELSE IF ~AllDigits(NumberPartOf(head)) THEN parsed = Err("Invalid")
            ELSE IF inU32 /\ ~FitsU32(NumberPartOf(head)) THEN parsed = Err("Invalid")
            ELSE IF ~Registered(PrefixOf(head), SuffixOf(name)) THEN parsed = Err("Unknown")
            ELSE parsed.k = "Ok"

\* C2 (original): grammar before registry. A head with no digit, or whose text
\* from the first digit on is not entirely a base-10 non-negative integer, is
\* Invalid whatever the prefix; a head that is well-formed (all digits) with an
\* unregistered prefix or suffix is Unknown, never Invalid.
C2_GrammarBeforeRegistry == C2For(FALSE)

\* C2 (amended): as C2, with "well-formed" meaning that the number part is all
\* digits AND denotes a number of at most 4294967295 (u32::MAX); a number part
\* above that is Invalid, whatever the prefix and the suffix.
C2_GrammarBeforeRegistryU32 == C2For(TRUE)

\* An unregistered prefix, and still Invalid: the grammar was decided first
C2_Witness == name = "foo1a_bar" /\ parsed = Err("Invalid")

\* The suffix denotes an alarm, an enable or a type code
EndsWithAlarm(s) == Len(s) >= 6 /\ SubSeq(s, Len(s) - 5, Len(s)) = "_alarm"

Dimensionless(nm) ==
    \/ nm = "beep_enable"
    \/ SuffixOf(nm) \in {"alarm", "enable", "type"}
    \/ EndsWithAlarm(SuffixOf(nm))

\* C7: every registered subfeature whose suffix denotes an alarm, an enable or a
\* type code, in every class (intrusion included), has the Ratio Unity.
C7_DimensionlessIsUnity ==
    (parsed # None /\ parsed.k = "Ok" /\ Dimensionless(name)) => ratio(parsed.type) = Unity

-----------------------------------------------------------------------------
(* Specification of the unit conversion: to_native, then to_unity of the result *)

\* The values converted: 128, 45, 0.0005, -0.0005, -1.5, 0.0000005, 0, and
\* 2^64, -2^64, NaN, +inf, -inf
FiniteValues ==
    {F(128, 1, 0), F(45, 1, 0), F(1, 2000, 0), F(-1, 2000, 0), F(-3, 2, 0),
     F(1, 2000000, 0), F(0, 1, 0), F(7, 3, 0)}

Values == FiniteValues \cup {F(2, 1, 63), F(-2, 1, 63), NaN, Inf(1), Inf(-1)}

InitConv ==
    /\ conv \in {[t |-> t, v |-> v, native |-> None, back |-> None] :
                    t \in SubfeatureTypes, v \in Values}
    /\ fs = None /\ sf = None /\ ret = NoCall /\ name = "" /\ parsed = None

ToNative ==
    /\ conv.native = None
    /\ conv' = [conv EXCEPT !.native = to_native(conv.t, conv.v)]
    /\ UNCHANGED <<fs, sf, ret, name, parsed>>

ToUnity ==
    /\ conv.native # None
    /\ conv.back = None
    /\ conv' = [conv EXCEPT !.back = to_unity(conv.t, I64AsF64(conv.native))]
    /\ UNCHANGED <<fs, sf, ret, name, parsed>>

NextConv == ToNative \/ ToUnity

SpecConv == InitConv /\ [][NextConv]_vars

LCM(a, b) == (a \div GCD(a, b)) * b

\* |a - b| <= (numer / denom) / 2 for two f64 values; no non-finite difference is
\* within any bound, and two finite values of different scale are further apart
\* than any half unit
WithinHalfUnit(a, b, r) ==
    /\ a.k = "fin" /\ b.k = "fin"
    /\ a.e = b.e
    /\ IF a.e = 0
       THEN LET l == LCM(a.d, b.d)
                diff == Abs(a.n * (l \div a.d) - b.n * (l \div b.d))
            IN  diff * 2 * r.denom <= r.numer * l
       ELSE a = b

\* C6 for the values in S
C6For(S) ==
    (conv # None /\ conv.back # None /\ conv.v \in S) =>
        WithinHalfUnit(conv.back, conv.v, ratio(conv.t))

====
